---- MODULE Spec2Model ----
(***************************************************************************)
(* A model of the directory-listing server in its three source variants:   *)
(*   "app"   src/app.py                                  (GET only)        *)
(*   "dash"  src/src/flask-directory-listing/__main__.py (GET, zip, POST)  *)
(*   "pkg"   src/src/flask_directory_listing/__main__.py (GET, zip, POST)  *)
(* A file name is a sequence of characters, a path a sequence of names     *)
(* from "/", so that string tests of the code (startswith) and component   *)
(* tests (is_relative_to) are both computed, not assumed.                  *)
(***************************************************************************)
EXTENDS Integers, Sequences, FiniteSets, TLC

VARIABLES variant, style, fs, pc, req, resp, tmp, uploads, scan, lst

vars == <<variant, style, fs, pc, req, resp, tmp, uploads, scan, lst>>

Variants == {"app", "dash", "pkg"}

\* ------------------------------------------------------------ bounds
\* longest request subpath, download name and upload path, in segments
MaxSegs == 2
MaxRelSegs == 3
\* uploads accepted in one behaviour
MaxUploads == 1
\* temporary archives that may pile up on disk before downloads stop
MaxTmp == 1
\* children of the directory of the listing specification
MaxEntries == 3

\* ------------------------------------------------------------- names
nDot == <<".">>
nDD == <<".", ".">>
nX == <<"x">>
nSH == <<"s", "h">>
nSHE == <<"s", "h", "-", "e">>
nA == <<"a">>
nF == <<"f">>
nL == <<"l">>
nN == <<"n">>
nH == <<".", "h">>
nG == <<".", "g">>

\* str.startswith on character sequences
StartsWith(s, t) == Len(t) <= Len(s) /\ SubSeq(s, 1, Len(t)) = t

\* name.startswith(".")
IsHidden(n) == StartsWith(n, nDot)

\* the string of an absolute path: "/" for the root, else "/n1/n2..."
RECURSIVE Flat(_)
Flat(p) == IF p = <<>> THEN <<>> ELSE <<"/">> \o Head(p) \o Flat(Tail(p))

PathStr(p) == IF p = <<>> THEN <<"/">> ELSE Flat(p)

Parent(p) == IF p = <<>> THEN <<>> ELSE SubSeq(p, 1, Len(p) - 1)

\* PurePath.is_relative_to: a prefix of whole components
IsRelativeTo(p, base) == Len(base) <= Len(p) /\ SubSeq(p, 1, Len(base)) = base

SeqsUpTo(S, n) == UNION {[1..k -> S] : k \in 0..n}

\* ----------------------------------------------------- the file system
\* the configured root, canonical: /x/sh ; /x/sh-e is its sibling
SERVE_ROOT == <<nX, nSH>>

DirNode(m) == [kind |-> "dir", size |-> 0, mtime |-> m, data |-> "", target |-> <<>>]
FileNode(sz, m, d) == [kind |-> "file", size |-> sz, mtime |-> m, data |-> d, target |-> <<>>]
LinkNode(t) == [kind |-> "link", size |-> 0, mtime |-> 0, data |-> "", target |-> t]

InitFs ==
    (<<>> :> DirNode(1)) @@ (<<nX>> :> DirNode(1)) @@
    (<<nX, nSH>> :> DirNode(1)) @@
    (<<nX, nSH, nA>> :> DirNode(2)) @@
    (<<nX, nSH, nA, nF>> :> FileNode(1, 1, "a/f")) @@
    (<<nX, nSH, nA, nG>> :> FileNode(1, 1, "a/.g")) @@
    (<<nX, nSH, nA, nH>> :> DirNode(1)) @@
    (<<nX, nSH, nA, nH, nF>> :> FileNode(1, 1, "a/.h/f")) @@
    (<<nX, nSH, nF>> :> FileNode(2, 1, "f")) @@
    (<<nX, nSH, nL>> :> LinkNode(<<nX, nSHE>>)) @@
    (<<nX, nSHE>> :> DirNode(1)) @@
    (<<nX, nSHE, nF>> :> FileNode(1, 2, "secret"))

\* os.path.normpath of the components of an absolute path: lexical, no file
\* system access
RECURSIVE Norm(_, _)
Norm(acc, rest) ==
    IF rest = <<>> THEN acc
    ELSE LET h == Head(rest) IN
         IF h = nDot \/ h = <<>> THEN Norm(acc, Tail(rest))
         ELSE IF h = nDD THEN Norm(Parent(acc), Tail(rest))
         ELSE Norm(Append(acc, h), Tail(rest))

normpath(p) == Norm(<<>>, p)

\* os.path.join(base, sub) and PurePath.__truediv__: an absolute second part
\* replaces the first
join(base, sub) == IF sub.abs THEN sub.segs ELSE base \o sub.segs

\* Path.resolve() (strict=False) and the kernel's own path walk: symbolic links
\* are followed component by component, ".." is taken of the resolved prefix,
\* and a missing tail is kept as written
RECURSIVE Walk(_, _, _)
Walk(f, cur, rest) ==
    IF rest = <<>> THEN cur
    ELSE LET h == Head(rest)
             t == Tail(rest)
             c == Append(cur, h)
         IN  IF h = nDot \/ h = <<>> THEN Walk(f, cur, t)
             ELSE IF h = nDD THEN Walk(f, Parent(cur), t)
             ELSE IF c \in DOMAIN f /\ f[c].kind = "link"
                  THEN Walk(f, <<>>, f[c].target \o t)
                  ELSE Walk(f, c, t)

resolve(f, p) == Walk(f, <<>>, p)

\* os.path.exists / isdir / isfile and their pathlib forms: all follow links
exists(f, p) == resolve(f, p) \in DOMAIN f
is_dir(f, p) == exists(f, p) /\ f[resolve(f, p)].kind = "dir"
is_file(f, p) == exists(f, p) /\ f[resolve(f, p)].kind = "file"

ChildNames(f, d) == {p[Len(p)] : p \in {q \in DOMAIN f : Len(q) = Len(d) + 1 /\ Parent(q) = d}}

\* ------------------------------------------------- containment checks
\* app.py 217, flask-directory-listing 238: a test on the path STRINGS
StartsWithRoot(p) == StartsWith(PathStr(p), PathStr(normpath(SERVE_ROOT)))

\* flask_directory_listing inside_root: a test on whole components of the
\* resolved path
inside_root(f, candidate) == IsRelativeTo(resolve(f, candidate), SERVE_ROOT)

\* ------------------------------------------------------------ listing
\* code units of the characters that occur in names
Ord(c) ==
    CASE c = "-" -> 45 [] c = "." -> 46 [] c = "B" -> 66 [] c = "Z" -> 90
      [] c = "a" -> 97 [] c = "d" -> 100 [] c = "e" -> 101 [] c = "f" -> 102
      [] c = "g" -> 103 [] c = "h" -> 104 [] c = "l" -> 108 [] c = "n" -> 110
      [] c = "s" -> 115 [] c = "x" -> 120

\* Python's < on str: lexicographic by code unit, a proper prefix is smaller
RECURSIVE StrLess(_, _)
StrLess(a, b) ==
    IF b = <<>> THEN FALSE
    ELSE IF a = <<>> THEN TRUE
    ELSE IF Head(a) = Head(b) THEN StrLess(Tail(a), Tail(b))
    ELSE Ord(Head(a)) < Ord(Head(b))

\* the value sort_key picks for a column (description is always "")
ValueLess(a, b, sort_by) ==
    CASE sort_by = "name" -> StrLess(a.name, b.name)
      [] sort_by = "modified" -> a.modified_timestamp < b.modified_timestamp
      [] sort_by = "size" -> a.size_bytes < b.size_bytes
      [] sort_by = "description" -> FALSE

\* sort_key of a build in which the directory flag is part of the key whatever
\* the style
KeyLessDirsFirst(a, b, sort_by, apache_style) ==
    IF a.is_directory # b.is_directory THEN a.is_directory
    ELSE ValueLess(a, b, sort_by)

\* sort_key: the value alone (apache style), or the pair (not is_directory,
\* value), compared as Python compares tuples, False < True
KeyLess(a, b, sort_by, apache_style) ==
    IF apache_style THEN ValueLess(a, b, sort_by)
    ELSE IF a.is_directory # b.is_directory THEN a.is_directory
    ELSE ValueLess(a, b, sort_by)

\* list.sort(key=...): stable, so an entry goes behind every entry whose key
\* is not greater than its own
RECURSIVE InsertSorted(_, _, _, _)
InsertSorted(sorted, e, sort_by, apache_style) ==
    IF sorted = <<>> THEN <<e>>
    ELSE IF KeyLess(e, Head(sorted), sort_by, apache_style)
         THEN <<e>> \o sorted
         ELSE <<Head(sorted)>> \o InsertSorted(Tail(sorted), e, sort_by, apache_style)

RECURSIVE SortEntries(_, _, _)
SortEntries(entries, sort_by, apache_style) ==
    IF entries = <<>> THEN <<>>
    ELSE InsertSorted(SortEntries(SubSeq(entries, 1, Len(entries) - 1), sort_by, apache_style),
                      entries[Len(entries)], sort_by, apache_style)

\* list.reverse()
Reverse(s) == [i \in 1..Len(s) |-> s[Len(s) + 1 - i]]

\* -------------------------------------------------------- size strings
\* step = 1024.0
step == 1024

\* A size is written in base 1024, <<g, m, k, b>> for g*1024^3 + m*1024^2 +
\* k*1024 + b, so that sizes beyond 2^31 are computed without overflow; the
\* floats of the code are exact for them (they lie below 2^53).
Digits(n) == <<n \div (step * step * step), (n \div (step * step)) % step,
               (n \div step) % step, n % step>>

Digit(k) == <<"0", "1", "2", "3", "4", "5", "6", "7", "8", "9">>[k + 1]

\* "%d"
RECURSIVE DecStr(_)
DecStr(n) == IF n < 10 THEN <<Digit(n)>> ELSE DecStr(n \div 10) \o <<Digit(n % 10)>>

\* the width 3 of "{:3d}" and "{:3.0f}": padded on the left, never cut
RJust3(t) == IF Len(t) >= 3 THEN t ELSE [i \in 1..(3 - Len(t)) |-> " "] \o t

\* size / 1024^unit as whole + part, the part a fraction of 2^30 kept as
\* hi * 2^20 + lo; the whole is one digit because the larger units were
\* excluded before
Whole(d, unit) == d[4 - unit]

Part(d, unit) ==
    CASE unit = 1 -> [hi |-> d[4], lo |-> 0]
      [] unit = 2 -> [hi |-> d[3], lo |-> d[4] * step]
      [] unit = 3 -> [hi |-> d[2], lo |-> d[3] * step + d[4]]

\* mult * part = q + rest: q, and how the rest compares with one half
\* (-1 below, 0 equal, 1 above)
Times(mult, part) ==
    LET top == mult * part.hi + (mult * part.lo) \div (step * step)
        low == (mult * part.lo) % (step * step)
        t == top % step
    IN  [q |-> top \div step,
         half |-> IF t > 512 \/ (t = 512 /\ low > 0) THEN 1
                  ELSE IF t = 512 /\ low = 0 THEN 0 ELSE -1]

\* the rounding of a build that cuts the digits off instead of rounding
RoundDown(base, x) == base + x.q

\* the rounding of float formatting: to nearest, a tie to the even neighbour
RoundHalfEven(base, x) ==
    LET down == base + x.q
    IN  IF x.half = 1 THEN down + 1
        ELSE IF x.half = 0 THEN down + (down % 2)
        ELSE down

\* f"{x:.1f}"
OneDecimal(d, unit) ==
    LET tenths == RoundHalfEven(10 * Whole(d, unit), Times(10, Part(d, unit)))
    IN  DecStr(tenths \div 10) \o <<".", Digit(tenths % 10)>>

\* f"{x:3.0f}"
NoDecimal(d, unit) == RJust3(DecStr(RoundHalfEven(Whole(d, unit), Times(1, Part(d, unit)))))

\* f"{x:.1f}U" if x < 10 else f"{x:3.0f}U"
Scaled(d, unit, suffix) ==
    IF Whole(d, unit) < 10 THEN OneDecimal(d, unit) \o <<suffix>>
    ELSE NoDecimal(d, unit) \o <<suffix>>

\* format_size of flask_directory_listing: size_k, size_m, size_g by repeated
\* division, each compared with step
format_size(d) ==
    IF d = <<0, 0, 0, 0>> THEN <<" ", " ", "0", " ">>
    ELSE IF d[1] = 0 /\ d[2] = 0 /\ d[3] = 0 THEN RJust3(DecStr(d[4])) \o <<" ">>
    ELSE LET size_k == SubSeq(d, 1, 3)
         IN  IF size_k[1] = 0 /\ size_k[2] = 0 THEN Scaled(d, 1, "K")
             ELSE LET size_m == SubSeq(size_k, 1, 2)
                  IN  IF size_m[1] = 0 THEN Scaled(d, 2, "M")
                      ELSE Scaled(d, 3, "G")

\* format_file_size of app.py and of flask-directory-listing: the size itself
\* compared with 1024, 1024 * 1024, 1024 * 1024 * 1024
format_file_size(d) ==
    IF d = <<0, 0, 0, 0>> THEN <<" ", " ", "0", " ">>
    ELSE IF d[1] = 0 /\ d[2] = 0 /\ d[3] = 0 THEN RJust3(DecStr(d[4])) \o <<" ">>
    ELSE IF d[1] = 0 /\ d[2] = 0 THEN Scaled(d, 1, "K")
    ELSE IF d[1] = 0 THEN Scaled(d, 2, "M")
    ELSE Scaled(d, 3, "G")

SizeText(v, d) == IF v = "pkg" THEN format_size(d) ELSE format_file_size(d)

\* one child as the directory scan finds it; err: its stat() raises OSError,
\* or the scan itself raises OSError when it is asked for this child (both
\* are raised inside the same try block)
Item(n, d, sz, m, e) == [name |-> n, is_dir |-> d, size |-> sz, mtime |-> m, err |-> e]

\* the placeholder a directory shows for its size
Dash == <<" ", " ", "-", " ">>

\* the dictionary built for one child
Entry(v, item) ==
    [name |-> item.name, is_directory |-> item.is_dir,
     size_bytes |-> IF item.is_dir THEN 0 ELSE item.size,
     size_formatted |-> IF item.is_dir THEN Dash ELSE SizeText(v, Digits(item.size)),
     modified_timestamp |-> item.mtime, description |-> ""]

\* the loop of a build that does not skip the hidden names
RECURSIVE CollectAll(_, _)
CollectAll(v, items) ==
    IF items = <<>> THEN <<>>
    ELSE <<Entry(v, Head(items))>> \o CollectAll(v, Tail(items))

\* the loop over the scan: hidden names are skipped before stat() is called
RECURSIVE Collect(_, _)
Collect(v, items) ==
    IF items = <<>> THEN <<>>
    ELSE IF IsHidden(Head(items).name) THEN Collect(v, Tail(items))
    ELSE <<Entry(v, Head(items))>> \o Collect(v, Tail(items))

ScanFails(items) == \E i \in 1..Len(items) : ~IsHidden(items[i].name) /\ items[i].err

\* the listing of a build that keeps the children read before the failure
directory_listing_dataPartial(v, items, sort_by, sort_order, apache_style) ==
    LET bad == {i \in 1..Len(items) : ~IsHidden(items[i].name) /\ items[i].err}
        read == IF bad = {} THEN items
                ELSE SubSeq(items, 1, (CHOOSE i \in bad : \A j \in bad : i <= j) - 1)
        sorted == SortEntries(Collect(v, read), sort_by, apache_style)
    IN  IF sort_order = "D" THEN Reverse(sorted) ELSE sorted

\* directory_listing_data / get_directory_listing on the scan of a directory
directory_listing_data(v, items, sort_by, sort_order, apache_style) ==
    IF ScanFails(items) THEN <<>>
    ELSE LET sorted == SortEntries(Collect(v, items), sort_by, apache_style)
         IN  IF sort_order = "D" THEN Reverse(sorted) ELSE sorted

\* sort_map.get(sort_column, "name")
sort_map(sort_column) ==
    CASE sort_column = "N" -> "name" [] sort_column = "M" -> "modified"
      [] sort_column = "S" -> "size" [] sort_column = "D" -> "description"
      [] OTHER -> "name"

\* the scan of directory d of the file system, in the order the system
\* returns the names
ScanDir(f, d, order) ==
    [i \in 1..Len(order) |->
        LET p == Append(d, order[i])
            r == resolve(f, p)
        IN  IF r \in DOMAIN f
            THEN Item(order[i], f[r].kind = "dir", f[r].size, f[r].mtime, FALSE)
            ELSE Item(order[i], FALSE, 0, 0, TRUE)]

\* every order in which the names of a set can be returned
Orders(S) == {o \in [1..Cardinality(S) -> S] : \A i, j \in 1..Cardinality(S) : i # j => o[i] # o[j]}

\* ---------------------------------------------------------- responses
\* what a handler hands back: the status, the bytes that reach the client
\* (read: the real files they came from), the directory listed (listed: its
\* real path), what was written, and what became of the temporary archive
NoResp ==
    [status |-> 0, kind |-> "none", read |-> {}, listed |-> {}, listing |-> <<>>,
     archive |-> {}, wrote |-> {}, made |-> {}, json |-> FALSE, success |-> FALSE,
     tmpmade |-> FALSE, tmpfile |-> FALSE, onClose |-> FALSE]

\* abort(code): the error handler's page
abort(code) == [NoResp EXCEPT !.status = code, !.kind = "error"]

\* jsonify({"success": ..., ...}), code
jsonify(ok, code) == [NoResp EXCEPT !.status = code, !.kind = "json", !.json = TRUE, !.success = ok]

\* send_file(path): the bytes of the file the system finds at path
send_file(f, p) == [NoResp EXCEPT !.status = 200, !.kind = "file", !.read = {resolve(f, p)}]

\* render_template("index.html", files=...)
render_listing(v, f, d, r, apache_style) ==
    [NoResp EXCEPT !.status = 200, !.kind = "listing", !.listed = {resolve(f, d)},
        !.listing = directory_listing_data(v, ScanDir(f, resolve(f, d), r.order),
                                           sort_map(r.query.C), r.query.O, apache_style)]

\* the apache parameter overrides the configured style
StyleOf(default, flag) ==
    IF flag \in {"true", "1", "yes"} THEN TRUE
    ELSE IF flag \in {"false", "0", "no"} THEN FALSE
    ELSE default

\* ------------------------------------------------------------ archive
\* a path no file system holds: "no directory fails"
NoPath == <<nDot>>

\* os.walk(top), followlinks=False, onerror=None: a directory whose scandir
\* fails is skipped without an error, and a link to a directory is not entered
RECURSIVE Visited(_, _, _)
Visited(f, d, bad) ==
    IF d = bad \/ d \notin DOMAIN f \/ f[d].kind # "dir" THEN {}
    ELSE {d} \cup UNION {Visited(f, Append(d, n), bad) : n \in ChildNames(f, d)}

\* the files the loop hands to zipf.write: the non-directories of every
\* directory visited whose own name does not start with "."
Selected(f, top, bad) ==
    UNION {{Append(d, n) : n \in {m \in ChildNames(f, d) : ~IsHidden(m)}} :
              d \in Visited(f, top, bad)}
        \ {p \in DOMAIN f : is_dir(f, p)}

\* relative_to(target) / os.path.relpath(file_path, target_dir)
relative_to(p, top) == SubSeq(p, Len(top) + 1, Len(p))

\* the body of download_directory_as_zip once the target is accepted: the
\* temporary file, the walk, the hand-off, and the variant's exception path
\* (flask-directory-listing 522-524 aborts without unlinking, flask_directory_
\* listing 333-335 unlinks first)
BuildArchive(v, f, target, io) ==
    LET top == resolve(f, target)
        sel == Selected(f, top, IF io.kind = "scandir" THEN io.at ELSE NoPath)
        raised == \/ io.kind = "compress" /\ sel # {}
                  \/ \E p \in sel : ~exists(f, p)
                  \/ io.kind = "send"
    IN  IF raised
        THEN [abort(500) EXCEPT !.tmpmade = TRUE, !.tmpfile = (v = "dash")]
        ELSE [NoResp EXCEPT !.status = 200, !.kind = "archive",
                 !.archive = {[arc |-> relative_to(p, top), src |-> resolve(f, p)] : p \in sel},
                 !.read = {resolve(f, p) : p \in sel},
                 !.tmpmade = TRUE, !.tmpfile = TRUE, !.onClose = TRUE]

\* download_directory_as_zip of flask_directory_listing (309-335)
download_pkg(f, directory, child, io) ==
    LET target == resolve(f, join(directory, child))
    IN  IF ~inside_root(f, target) \/ ~is_dir(f, target)
        THEN abort(IF exists(f, target) THEN 403 ELSE 404)
        ELSE BuildArchive("pkg", f, target, io)

\* download_directory_as_zip of flask-directory-listing (468-524): its
\* abort(403) and abort(404) are raised inside the try whose handler catches
\* Exception, so they leave as abort(500)
download_dash(f, full_path, child, io) ==
    LET target_dir == normpath(join(full_path, child))
    IN  IF ~StartsWithRoot(target_dir) THEN abort(500)
        ELSE IF ~exists(f, target_dir) \/ ~is_dir(f, target_dir) THEN abort(500)
        ELSE BuildArchive("dash", f, target_dir, io)

\* ---------------------------------------------------------------- GET
\* list_endpoint of flask_directory_listing (177-228)
list_endpoint(f, r, default_style) ==
    LET target == resolve(f, join(SERVE_ROOT, r.subpath))
    IN  IF ~inside_root(f, target) THEN abort(403)
        ELSE IF ~exists(f, target) THEN abort(404)
        ELSE IF is_file(f, target) THEN send_file(f, target)
        ELSE IF r.download.segs # <<>> THEN download_pkg(f, target, r.download, r.io)
        ELSE render_listing("pkg", f, target, r, StyleOf(default_style, r.query.apache))

\* directory_listing of app.py (207-284) and of flask-directory-listing
\* (228-315); only the latter knows download and the apache parameter
directory_listing(v, f, r, default_style) ==
    LET full_path == normpath(join(SERVE_ROOT, r.subpath))
    IN  IF ~StartsWithRoot(full_path) THEN abort(403)
        ELSE IF ~exists(f, full_path) THEN abort(404)
        ELSE IF is_file(f, full_path) THEN send_file(f, full_path)
        ELSE IF is_dir(f, full_path)
             THEN IF v = "dash" /\ r.download.segs # <<>>
                  THEN download_dash(f, full_path, r.download, r.io)
                  ELSE render_listing(v, f, full_path, r,
                          IF v = "dash" THEN StyleOf(default_style, r.query.apache) ELSE TRUE)
        ELSE abort(404)

HandleGet(v, f, r, default_style) ==
    IF v = "pkg" THEN list_endpoint(f, r, default_style)
    ELSE directory_listing(v, f, r, default_style)

\* --------------------------------------------------------------- POST
\* os.makedirs(p, exist_ok=True) / Path.mkdir(parents=True, exist_ok=True) on
\* the real path p: raises when something on the way is not a directory
makedirs(f, p) ==
    LET prefixes == {SubSeq(p, 1, k) : k \in 1..Len(p)}
        missing == prefixes \ DOMAIN f
    IN  IF \E q \in prefixes \cap DOMAIN f : f[q].kind # "dir"
        THEN [ok |-> FALSE, fs |-> f, made |-> {}]
        ELSE [ok |-> TRUE, made |-> missing,
              fs |-> [q \in DOMAIN f \cup missing |-> IF q \in DOMAIN f THEN f[q] ELSE DirNode(3)]]

\* FileStorage.save(dst): open(dst, "wb") and copy the stream. io = "open":
\* the open fails; io = "write": the copy fails and leaves a truncated file
save(f, dst, io) ==
    LET real == resolve(f, dst)
        refused == \/ real \in DOMAIN f /\ f[real].kind = "dir"
                   \/ Parent(real) \notin DOMAIN f
                   \/ f[Parent(real)].kind # "dir"
    IN  IF refused \/ io.kind = "open" THEN [ok |-> FALSE, fs |-> f, wrote |-> {}]
        ELSE IF io.kind = "write"
        THEN [ok |-> FALSE, wrote |-> {real},
              fs |-> [q \in DOMAIN f \cup {real} |-> IF q = real THEN FileNode(0, 3, "partial") ELSE f[q]]]
        ELSE [ok |-> TRUE, wrote |-> {real},
              fs |-> [q \in DOMAIN f \cup {real} |-> IF q = real THEN FileNode(2, 3, "upload") ELSE f[q]]]

\* .replace("\\", "/").lstrip("/"): the leading separator is dropped
lstrip(rel) == [abs |-> FALSE, segs |-> rel.segs]

\* request.form.get("path", upload.filename)
FormPath(r) == IF r.hasPath THEN r.path ELSE r.filename

Out(response, f) == [resp |-> response, fs |-> f]

\* upload_endpoint of flask_directory_listing (233-265); the mkdir of line 256
\* stands outside the try, so its exception leaves as the framework's own 500
upload_endpoint(f, r) ==
    LET target_dir == resolve(f, join(SERVE_ROOT, r.subpath))
        relative_path == lstrip(FormPath(r))
        destination == resolve(f, join(target_dir, relative_path))
        mk == makedirs(f, Parent(destination))
        sv == save(mk.fs, destination, r.io)
    IN  IF ~inside_root(f, target_dir) THEN Out(jsonify(FALSE, 403), f)
        ELSE IF ~exists(f, target_dir) \/ ~is_dir(f, target_dir) THEN Out(jsonify(FALSE, 404), f)
        ELSE IF ~r.marker THEN Out(jsonify(FALSE, 400), f)
        ELSE IF r.file = "missing" THEN Out(jsonify(FALSE, 400), f)
        ELSE IF r.file = "empty" THEN Out(jsonify(FALSE, 400), f)
        ELSE IF ~inside_root(f, destination) THEN Out(jsonify(FALSE, 400), f)
        ELSE IF ~mk.ok THEN Out(abort(500), f)
        ELSE IF ~sv.ok
             THEN Out([jsonify(FALSE, 500) EXCEPT !.made = mk.made, !.wrote = sv.wrote], sv.fs)
             ELSE Out([jsonify(TRUE, 200) EXCEPT !.made = mk.made, !.wrote = sv.wrote], sv.fs)

\* upload_file of flask-directory-listing (320-409)
upload_file(f, r) ==
    LET full_path == normpath(join(SERVE_ROOT, r.subpath))
        relative_path == lstrip(FormPath(r))
        nested == Len(relative_path.segs) >= 2
        dir_structure == SubSeq(relative_path.segs, 1, Len(relative_path.segs) - 1)
        target_dir == normpath(full_path \o dir_structure)
        mk == IF nested THEN makedirs(f, resolve(f, target_dir))
              ELSE [ok |-> TRUE, fs |-> f, made |-> {}]
        file_path == IF nested
                     THEN normpath(Append(target_dir, relative_path.segs[Len(relative_path.segs)]))
                     ELSE normpath(join(full_path, r.filename))
        sv == save(mk.fs, file_path, r.io)
    IN  IF ~StartsWithRoot(full_path) THEN Out(jsonify(FALSE, 403), f)
        ELSE IF ~exists(f, full_path) \/ ~is_dir(f, full_path) THEN Out(jsonify(FALSE, 404), f)
        ELSE IF ~r.marker THEN Out(jsonify(FALSE, 400), f)
        ELSE IF r.file = "missing" THEN Out(jsonify(FALSE, 400), f)
        ELSE IF r.file = "empty" THEN Out(jsonify(FALSE, 400), f)
        ELSE IF nested /\ ~StartsWith(PathStr(target_dir), PathStr(full_path))
             THEN Out(jsonify(FALSE, 400), f)
        ELSE IF ~mk.ok THEN Out(jsonify(FALSE, 500), f)
        ELSE IF ~StartsWith(PathStr(file_path), PathStr(full_path))
             THEN Out([jsonify(FALSE, 400) EXCEPT !.made = mk.made], mk.fs)
        ELSE IF ~sv.ok
             THEN Out([jsonify(FALSE, 500) EXCEPT !.made = mk.made, !.wrote = sv.wrote], sv.fs)
             ELSE Out([jsonify(TRUE, 200) EXCEPT !.made = mk.made, !.wrote = sv.wrote], sv.fs)

HandlePost(v, f, r) == IF v = "pkg" THEN upload_endpoint(f, r) ELSE upload_file(f, r)

\* ------------------------------------------------------------- inputs
NoRel == [abs |-> FALSE, segs |-> <<>>]
NoIo == [kind |-> "none", at |-> NoPath]
NoQuery == [C |-> "N", O |-> "A", apache |-> ""]

NoReq ==
    [method |-> "none", subpath |-> NoRel, query |-> NoQuery, download |-> NoRel,
     order |-> <<>>, io |-> NoIo, marker |-> FALSE, file |-> "missing",
     filename |-> NoRel, hasPath |-> FALSE, path |-> NoRel]

\* a request subpath after unquote(); a doubly encoded leading "/" makes it
\* absolute
Segs == {nDD, nX, nSHE, nA, nF, nL}
SubPaths == {[abs |-> b, segs |-> s] : b \in BOOLEAN, s \in SeqsUpTo(Segs, MaxSegs)}

\* the directory a download is asked of and the download parameter, which
\* is not empty (an empty one is no download)
RelSubPaths == {sp \in SubPaths : ~sp.abs}
DlParents == RelSubPaths
DlSegs == {nDD, nSHE, nA, nF}
DlNames == {[abs |-> FALSE, segs |-> s] : s \in SeqsUpTo(DlSegs, MaxSegs) \ {<<>>}}

Queries == {NoQuery, [C |-> "S", O |-> "D", apache |-> "true"]}

\* the path field and the file name of an upload
RelSegs == {nDD, nSHE, nF}
RelPaths ==
    {[abs |-> FALSE, segs |-> s] : s \in SeqsUpTo(RelSegs, MaxRelSegs)}
        \cup {[abs |-> TRUE, segs |-> s] : s \in SeqsUpTo(RelSegs, 1)}
FileNames == {[abs |-> FALSE, segs |-> <<nN>>], [abs |-> FALSE, segs |-> <<nDD, nN>>]}

\* the directory a GET lists or archives, as the variant computes it
GetTarget(v, f, sp) ==
    IF v = "pkg" THEN resolve(f, join(SERVE_ROOT, sp))
    ELSE resolve(f, normpath(join(SERVE_ROOT, sp)))

\* what the environment decides for a GET: the order in which the directory
\* scan returns the names, and the I/O failure that strikes the archive (none
\* can strike when no directory is walked)
ScanOrders(v, f, sp) ==
    IF is_dir(f, GetTarget(v, f, sp))
    THEN Orders(ChildNames(f, GetTarget(v, f, sp)))
    ELSE {<<>>}

ArchiveIos(v, f, sp, dl) ==
    LET walked == Visited(f, resolve(f, join(GetTarget(v, f, sp), dl)), NoPath)
    IN  IF v = "app" \/ walked = {} THEN {NoIo}
        ELSE {NoIo, [kind |-> "compress", at |-> NoPath], [kind |-> "send", at |-> NoPath]}
             \cup {[kind |-> "scandir", at |-> d] : d \in walked}

SaveIos == {NoIo, [kind |-> "open", at |-> NoPath], [kind |-> "write", at |-> NoPath]}

\* ------------------------------------------------------------ actions
Init ==
    /\ variant \in Variants
    /\ style = FALSE
    /\ fs = InitFs
    /\ pc = "idle"
    /\ req = NoReq
    /\ resp = NoResp
    /\ tmp = 0
    /\ uploads = 0
    /\ scan = <<>>
    /\ lst = <<>>

\* a GET handled to its response
Respond(r) ==
    LET out == HandleGet(variant, fs, r, style)
    IN  /\ req' = r
        /\ resp' = out
        /\ tmp' = IF out.tmpfile THEN tmp + 1 ELSE tmp
        /\ pc' = "responded"
        /\ UNCHANGED <<variant, style, fs, uploads, scan, lst>>

\* GET /<subpath>?C=..;O=..[;apache=..]
Get(sp, q) ==
    /\ pc = "idle"
    /\ \E o \in ScanOrders(variant, fs, sp) :
          Respond([NoReq EXCEPT !.method = "GET", !.subpath = sp, !.query = q, !.order = o])

\* GET /<subpath>?download=<name>; a variant that does not know the parameter
\* lists the directory
Download(sp, dl) ==
    /\ pc = "idle"
    /\ tmp < MaxTmp
    /\ \E i \in ArchiveIos(variant, fs, sp, dl),
          o \in IF variant = "app" THEN ScanOrders(variant, fs, sp) ELSE {<<>>} :
          Respond([NoReq EXCEPT !.method = "GET", !.subpath = sp, !.download = dl,
                                !.order = o, !.io = i])

\* POST /<subpath>[?upload] with its multipart fields, handled to its response
Post(sp, m, fl, fn, hp, pa, i) ==
    /\ pc = "idle"
    /\ variant # "app"
    /\ uploads < MaxUploads
    /\ LET r == [NoReq EXCEPT !.method = "POST", !.subpath = sp, !.marker = m, !.file = fl,
                              !.filename = fn, !.hasPath = hp, !.path = pa, !.io = i]
           out == HandlePost(variant, fs, r)
       IN  /\ req' = r
           /\ resp' = out.resp
           /\ fs' = out.fs
           /\ uploads' = IF out.fs # fs THEN uploads + 1 ELSE uploads
    /\ pc' = "responded"
    /\ UNCHANGED <<variant, style, tmp, scan, lst>>

\* the server has sent the response and closes it: the callbacks registered
\* with call_on_close run
Close ==
    /\ pc = "responded"
    /\ tmp' = IF resp.onClose THEN tmp - 1 ELSE tmp
    /\ pc' = "idle"
    /\ req' = NoReq
    /\ resp' = NoResp
    /\ UNCHANGED <<variant, style, fs, uploads, scan, lst>>

\* the uploads whose fields the handler reads: without the marker or the file
\* part the rest of the form is never looked at, and the file name is read
\* beside a path field only when that path names no directory
PostNext ==
    /\ pc = "idle" /\ variant # "app" /\ uploads < MaxUploads
    /\ \E sp \in RelSubPaths :
        \/ Post(sp, FALSE, "named", NoRel, FALSE, NoRel, NoIo)
        \/ \E fl \in {"missing", "empty"} : Post(sp, TRUE, fl, NoRel, FALSE, NoRel, NoIo)
        \/ \E fn \in FileNames, i \in SaveIos :
              \/ Post(sp, TRUE, "named", fn, FALSE, NoRel, i)
              \/ \E pa \in {x \in RelPaths : Len(x.segs) <= 1} :
                    Post(sp, TRUE, "named", fn, TRUE, pa, i)
        \/ \E pa \in {x \in RelPaths : Len(x.segs) >= 2}, i \in SaveIos :
              Post(sp, TRUE, "named", [abs |-> FALSE, segs |-> <<nN>>], TRUE, pa, i)

GetNext == pc = "idle" /\ \E sp \in SubPaths, q \in Queries : Get(sp, q)

DownloadNext == pc = "idle" /\ tmp < MaxTmp /\ \E sp \in DlParents, dl \in DlNames : Download(sp, dl)

Next ==
    \/ GetNext
    \/ DownloadNext
    \/ PostNext
    \/ Close

Spec == Init /\ [][Next]_vars

\* ------------------------------------------- the listing specification
\* The listing of one directory whose scan is drawn from bounded sets: names
\* in any order, files and directories, sizes and times that tie.
ListNames == {<<"B">>, <<"a">>, <<"Z">>}
ListItems ==
    {Item(n, TRUE, 4, m, FALSE) : n \in ListNames, m \in 1..2}
        \cup {Item(n, FALSE, sz, m, FALSE) : n \in ListNames, sz \in 1..2, m \in 1..2}
        \cup {Item(nH, FALSE, 1, 1, FALSE), Item(nH, FALSE, 0, 0, TRUE)}
        \cup {Item(n, FALSE, 0, 0, TRUE) : n \in ListNames}

Scans ==
    {s \in SeqsUpTo(ListItems, MaxEntries) :
        \A i, j \in 1..Len(s) : i # j => s[i].name # s[j].name}

\* the links followed from the first listing in one behaviour
MaxFollows == 2

Columns == {"N", "M", "S", "D"}

\* sort_url of a build that forgets the toggle: every link carries its
\* column's default order
sort_urlNoToggle(v, column, current_column, current_order, config_style) ==
    [C |-> column,
     O |-> IF column = "N" /\ (v = "app" \/ config_style) THEN "D" ELSE "A"]

\* sort_url / get_sort_url: the order of the link of a column, given the
\* column and order of the page; flask_directory_listing and
\* flask-directory-listing read the CONFIGURED style, app.py has no style and
\* always starts Name descending. The link is "?C=<column>;O=<order>".
sort_url(v, column, current_column, current_order, config_style) ==
    [C |-> column,
     O |-> IF column = current_column
           THEN (IF current_order = "A" THEN "D" ELSE "A")
           ELSE IF column = "N" /\ (v = "app" \/ config_style) THEN "D" ELSE "A"]

NoLst ==
    [C |-> "", O |-> "", apache_style |-> FALSE, files |-> <<>>, done |-> FALSE,
     status |-> 0,
     links |-> [c \in Columns |-> [C |-> c, O |-> ""]], trail |-> <<>>]

\* the style in effect for a request: app.py knows neither the configured
\* style nor the apache parameter
EffectiveStyle(v, default, flag) == IF v = "app" THEN TRUE ELSE StyleOf(default, flag)

\* the page rendered for GET ?C=..;O=..[;apache=..] on the scanned directory:
\* the entries and the four sort links of the header; render_template gives
\* the page status 200 whatever the listing holds
Page(v, items, default, sort_column, sort_order, apache_flag, trail) ==
    [C |-> sort_column, O |-> sort_order,
     apache_style |-> EffectiveStyle(v, default, apache_flag),
     files |-> directory_listing_data(v, items, sort_map(sort_column), sort_order,
                                      EffectiveStyle(v, default, apache_flag)),
     done |-> TRUE,
     status |-> 200,
     links |-> [c \in Columns |-> sort_url(v, c, sort_column, sort_order, default)],
     trail |-> Append(trail, [C |-> sort_column, O |-> sort_order])]

InitListing ==
    /\ variant \in Variants
    /\ style \in BOOLEAN
    /\ scan \in Scans
    /\ lst = NoLst
    /\ fs = InitFs
    /\ pc = "idle"
    /\ req = NoReq
    /\ resp = NoResp
    /\ tmp = 0
    /\ uploads = 0

\* the listing part of the GET handler (list_endpoint 192-228) on the scanned
\* directory, once per behaviour
ListDir(sort_column, sort_order, apache_flag) ==
    /\ ~lst.done
    /\ lst' = Page(variant, scan, style, sort_column, sort_order, apache_flag, <<>>)
    /\ UNCHANGED <<variant, style, fs, pc, req, resp, tmp, uploads, scan>>

NextListing ==
    \E c \in Columns, o \in {"A", "D"}, a \in {"", "true", "false"} : ListDir(c, o, a)

SpecListing == InitListing /\ [][NextListing]_vars

\* ---------------------------------------------- the sort-link specification
\* The sort links of a page are followed: the next request is the link's own
\* query, which carries C and O and no apache parameter.
InitLinks == InitListing /\ Len(scan) <= 1

Follow(column) ==
    /\ lst.done
    /\ Len(lst.trail) <= MaxFollows
    /\ lst' = Page(variant, scan, style, lst.links[column].C, lst.links[column].O, "",
                   lst.trail)
    /\ UNCHANGED <<variant, style, fs, pc, req, resp, tmp, uploads, scan>>

FollowNext == \E c \in Columns : Follow(c)

NextLinks == NextListing \/ FollowNext

SpecLinks == InitLinks /\ [][NextLinks]_vars

\* ------------------------------------------------ the size specification
\* The size formatter applied to sizes drawn from the digits below: zero, the
\* ends of every range, ties of both roundings, and sizes beyond 10 G.
SizeDigitsG == {0, 1, 9, 10, 11, 2000}
SizeDigitsM == {0, 1, 9, 10, 14, 15, 1023}
SizeDigitsK == {0, 1, 2, 9, 10, 11, 1023}
SizeDigitsB == {0, 1, 256, 511, 512, 513, 768, 1023}

Sizes == {<<g, m, k, b>> : g \in SizeDigitsG, m \in SizeDigitsM, k \in SizeDigitsK, b \in SizeDigitsB}

InitSize ==
    /\ variant \in Variants
    /\ lst \in {[size |-> d, text |-> <<>>, done |-> FALSE] : d \in Sizes}
    /\ style = FALSE
    /\ scan = <<>>
    /\ fs = InitFs
    /\ pc = "idle"
    /\ req = NoReq
    /\ resp = NoResp
    /\ tmp = 0
    /\ uploads = 0

\* the formatter of the variant is called on the size
FormatSize ==
    /\ ~lst.done
    /\ lst' = [lst EXCEPT !.text = SizeText(variant, lst.size), !.done = TRUE]
    /\ UNCHANGED <<variant, style, fs, pc, req, resp, tmp, uploads, scan>>

NextSize == FormatSize

SpecSize == InitSize /\ [][NextSize]_vars

\* --------------------------------------- the concurrent-upload specification
\* Two requests, each served by its own thread of the development server,
\* save an upload to the same destination. FileStorage.save opens the
\* destination for writing (the file is truncated), copies the stream in
\* buffers, each written at the writer's own offset, and closes it.
Uploaders == {1, 2}

\* the bytes of a stream; the bytes one buffer holds
MaxStream == 3
BufferLen == 2

\* byte k of the stream of uploader p; the byte of a hole
Byte(p, k) == <<p, k>>
Hole == <<0, 0>>

\* the complete stream of n bytes of uploader p
Stream(p, n) == [k \in 1..n |-> Byte(p, k)]

Min(a, b) == IF a <= b THEN a ELSE b
Max(a, b) == IF a <= b THEN b ELSE a

\* write(2) of data at offset pos of a file opened without O_APPEND: the
\* bytes under it are replaced, a gap is a hole, the bytes after it stay
WriteAt(file, pos, data) ==
    [k \in 1..Max(Len(file), pos + Len(data)) |->
        IF k > pos /\ k <= pos + Len(data) THEN data[k - pos]
        ELSE IF k <= Len(file) THEN file[k]
        ELSE Hole]

InitUploads ==
    /\ variant \in {"dash", "pkg"}
    /\ req \in [Uploaders -> 1..MaxStream]
    /\ pc = [p \in Uploaders |-> "checked"]
    /\ resp = [p \in Uploaders |-> 0]
    /\ lst = [file |-> <<>>, pos |-> [p \in Uploaders |-> 0]]
    /\ style = FALSE
    /\ scan = <<>>
    /\ fs = InitFs
    /\ tmp = 0
    /\ uploads = 0

\* open(destination, "wb")
OpenDst(p) ==
    /\ pc[p] = "checked"
    /\ pc' = [pc EXCEPT ![p] = "open"]
    /\ lst' = [lst EXCEPT !.file = <<>>, !.pos[p] = 0]
    /\ UNCHANGED <<variant, style, fs, req, resp, tmp, uploads, scan>>

\* one buffer of copyfileobj
WriteBuffer(p) ==
    /\ pc[p] = "open"
    /\ lst.pos[p] < req[p]
    /\ LET n == Min(BufferLen, req[p] - lst.pos[p])
           data == [k \in 1..n |-> Byte(p, lst.pos[p] + k)]
       IN  lst' = [lst EXCEPT !.file = WriteAt(lst.file, lst.pos[p], data),
                              !.pos[p] = lst.pos[p] + n]
    /\ UNCHANGED <<variant, style, fs, pc, req, resp, tmp, uploads, scan>>

\* the stream is at its end: close, and the handler answers success
SaveDone(p) ==
    /\ pc[p] = "open"
    /\ lst.pos[p] = req[p]
    /\ pc' = [pc EXCEPT ![p] = "done"]
    /\ resp' = [resp EXCEPT ![p] = 200]
    /\ UNCHANGED <<variant, style, fs, req, tmp, uploads, scan, lst>>

OpenNext == \E p \in Uploaders : OpenDst(p)
WriteNext == \E p \in Uploaders : WriteBuffer(p)
DoneNext == \E p \in Uploaders : SaveDone(p)

NextUploads ==
    \/ OpenNext
    \/ WriteNext
    \/ DoneNext

SpecUploads == InitUploads /\ [][NextUploads]_vars

\* ------------------------------------ the concurrent-listing specification
\* One listing request reads a directory while other requests and actors
\* change it. The loop of directory_listing_data reads the names, then
\* inspects one child after the other; nothing holds the directory still in
\* between. A directory is a function from names to sizes, 0 for a name that
\* is absent.
SnapNames == {<<"a">>, <<"B">>, nH}
SnapSizes == 1..2
MaxChanges == 2

Dirs == [SnapNames -> {0} \cup SnapSizes]

\* the names present, in every order the system can return them
NameOrders(d) == Orders({n \in SnapNames : d[n] # 0})

InitSnapshot ==
    /\ variant \in Variants
    /\ pc = "start"
    /\ lst \in {[dir |-> d, names |-> <<>>, items |-> <<>>, files |-> <<>>, seen |-> {}] :
                    d \in Dirs}
    /\ uploads = 0
    /\ style = FALSE
    /\ scan = <<>>
    /\ fs = InitFs
    /\ req = NoReq
    /\ resp = NoResp
    /\ tmp = 0

\* directory.iterdir() / os.listdir(directory_path): the names, read at once
ReadNames ==
    /\ pc = "start"
    /\ \E o \in NameOrders(lst.dir) :
           lst' = [lst EXCEPT !.names = o, !.seen = {lst.dir}]
    /\ pc' = "reading"
    /\ UNCHANGED <<variant, style, fs, req, resp, tmp, uploads, scan>>

\* one turn of the loop: the next name is looked at as the directory is now
StatChild ==
    /\ pc = "reading"
    /\ ~ScanFails(lst.items)
    /\ Len(lst.items) < Len(lst.names)
    /\ LET n == lst.names[Len(lst.items) + 1]
           sz == lst.dir[n]
       IN  lst' = [lst EXCEPT !.items = Append(@, Item(n, FALSE, sz, 1, sz = 0))]
    /\ UNCHANGED <<variant, style, fs, pc, req, resp, tmp, uploads, scan>>

\* the loop has ended or has raised: the entries are sorted and returned
ReturnListing ==
    /\ pc = "reading"
    /\ Len(lst.items) = Len(lst.names) \/ ScanFails(lst.items)
    /\ lst' = [lst EXCEPT !.files = directory_listing_data(variant, lst.items, "name", "A", TRUE)]
    /\ pc' = "done"
    /\ UNCHANGED <<variant, style, fs, req, resp, tmp, uploads, scan>>

\* an upload creates or overwrites a file of the directory while the
\* listing runs
Overwrite(n, sz) ==
    /\ pc = "reading"
    /\ uploads < MaxChanges
    /\ ~ScanFails(lst.items)
    /\ lst.dir[n] # sz
    /\ lst' = [lst EXCEPT !.dir[n] = sz, !.seen = @ \cup {[lst.dir EXCEPT ![n] = sz]}]
    /\ uploads' = uploads + 1
    /\ UNCHANGED <<variant, style, fs, pc, req, resp, tmp, scan>>

\* another actor removes a file of the directory while the listing runs
Remove(n) ==
    /\ pc = "reading"
    /\ uploads < MaxChanges
    /\ ~ScanFails(lst.items)
    /\ lst.dir[n] # 0
    /\ lst' = [lst EXCEPT !.dir[n] = 0, !.seen = @ \cup {[lst.dir EXCEPT ![n] = 0]}]
    /\ uploads' = uploads + 1
    /\ UNCHANGED <<variant, style, fs, pc, req, resp, tmp, scan>>

OverwriteNext == \E n \in SnapNames \ {nH}, sz \in SnapSizes : Overwrite(n, sz)
RemoveNext == \E n \in SnapNames \ {nH} : Remove(n)

NextSnapshot ==
    \/ ReadNames
    \/ StatChild
    \/ ReturnListing
    \/ OverwriteNext
    \/ RemoveNext

SpecSnapshot == InitSnapshot /\ [][NextSnapshot]_vars

\* ------------------------------------------------ the icon specification
\* GET /icons/<path:filename>. The assets directory is /x/as/ic; /x/as/ic-e
\* is its sibling, /x/n a file elsewhere.
nAS == <<"a", "s">>
nIC == <<"i", "c">>
nICE == <<"i", "c", "-", "e">>

assets_dir == <<nX, nAS, nIC>>

IconFs ==
    (<<>> :> DirNode(1)) @@ (<<nX>> :> DirNode(1)) @@
    (<<nX, nAS>> :> DirNode(1)) @@
    (<<nX, nAS, nIC>> :> DirNode(1)) @@
    (<<nX, nAS, nIC, nF>> :> FileNode(1, 1, "icon")) @@
    (<<nX, nAS, nIC, nA>> :> DirNode(1)) @@
    (<<nX, nAS, nIC, nA, nF>> :> FileNode(1, 1, "a/icon")) @@
    (<<nX, nAS, nICE>> :> DirNode(1)) @@
    (<<nX, nAS, nICE, nF>> :> FileNode(1, 1, "secret")) @@
    (<<nX, nN>> :> FileNode(1, 1, "other"))

\* longest icon name, in segments
MaxIconSegs == 3

IconSegs == {nDD, nF, nA, nIC, nICE, nN}
IconNames == UNION {[1..k -> IconSegs] : k \in 1..MaxIconSegs}

\* serve_assets: flask_directory_listing resolves the path, the other two
\* normalise it; all three then test the path STRING against the string of
\* the assets directory
serve_assets(v, f, filename) ==
    LET file_path == IF v = "pkg" THEN resolve(f, assets_dir \o filename)
                     ELSE normpath(assets_dir \o filename)
        base == IF v = "pkg" THEN assets_dir ELSE normpath(assets_dir)
    IN  IF ~StartsWith(PathStr(file_path), PathStr(base)) THEN abort(403)
        ELSE IF ~exists(f, file_path) \/ ~is_file(f, file_path) THEN abort(404)
        ELSE send_file(f, file_path)

InitIcons ==
    /\ variant \in Variants
    /\ fs = IconFs
    /\ pc = "idle"
    /\ req = <<>>
    /\ resp = NoResp
    /\ style = FALSE
    /\ scan = <<>>
    /\ lst = <<>>
    /\ tmp = 0
    /\ uploads = 0

Icon(filename) ==
    /\ pc = "idle"
    /\ req' = filename
    /\ resp' = serve_assets(variant, fs, filename)
    /\ pc' = "icon"
    /\ UNCHANGED <<variant, style, fs, tmp, uploads, scan, lst>>

NextIcons == \E filename \in IconNames : Icon(filename)

SpecIcons == InitIcons /\ [][NextIcons]_vars

\* ------------------------------------- the two-file-system specification
\* The same request is handled on two file systems that agree inside the
\* root and differ outside it: lst holds the second file system and the
\* response given on it.
Without(f, S) == [p \in DOMAIN f \ S |-> f[p]]

OutsideFss ==
    {Without(InitFs, {<<nX, nSHE, nF>>}),
     Without(InitFs, {<<nX, nSHE>>, <<nX, nSHE, nF>>}),
     (<<nX, nSHE>> :> FileNode(1, 1, "other")) @@ Without(InitFs, {<<nX, nSHE, nF>>}),
     (<<nX, nSHE, nF>> :> DirNode(1)) @@ InitFs}

InitOutside ==
    /\ variant \in Variants
    /\ fs = InitFs
    /\ lst \in {[fs2 |-> g, resp2 |-> NoResp] : g \in OutsideFss}
    /\ pc = "idle"
    /\ req = NoReq
    /\ resp = NoResp
    /\ style = FALSE
    /\ scan = <<>>
    /\ tmp = 0
    /\ uploads = 0

\* a GET handled on both file systems
RespondBoth(r, r2) ==
    /\ req' = r
    /\ resp' = HandleGet(variant, fs, r, style)
    /\ lst' = [lst EXCEPT !.resp2 = HandleGet(variant, lst.fs2, r2, style)]
    /\ pc' = "compared"
    /\ UNCHANGED <<variant, style, fs, tmp, uploads, scan>>

GetBoth(sp) ==
    /\ pc = "idle"
    /\ \E o \in ScanOrders(variant, fs, sp), o2 \in ScanOrders(variant, lst.fs2, sp) :
          RespondBoth([NoReq EXCEPT !.method = "GET", !.subpath = sp, !.order = o],
                      [NoReq EXCEPT !.method = "GET", !.subpath = sp, !.order = o2])

DownloadBoth(sp, dl) ==
    /\ pc = "idle"
    /\ variant # "app"
    /\ LET r == [NoReq EXCEPT !.method = "GET", !.subpath = sp, !.download = dl]
       IN  RespondBoth(r, r)

\* an upload handled on both file systems
PostBoth(sp, fn, hp, pa) ==
    /\ pc = "idle"
    /\ variant # "app"
    /\ LET r == [NoReq EXCEPT !.method = "POST", !.subpath = sp, !.marker = TRUE,
                              !.file = "named", !.filename = fn, !.hasPath = hp, !.path = pa]
           out == HandlePost(variant, fs, r)
           out2 == HandlePost(variant, lst.fs2, r)
       IN  /\ req' = r
           /\ resp' = out.resp
           /\ fs' = out.fs
           /\ lst' = [fs2 |-> out2.fs, resp2 |-> out2.resp]
    /\ pc' = "compared"
    /\ UNCHANGED <<variant, style, tmp, uploads, scan>>

GetBothNext == \E sp \in SubPaths : GetBoth(sp)
DownloadBothNext == \E sp \in DlParents, dl \in DlNames : DownloadBoth(sp, dl)
PostBothNext ==
    \E sp \in RelSubPaths, fn \in FileNames :
        \/ PostBoth(sp, fn, FALSE, NoRel)
        \/ \E pa \in RelPaths : PostBoth(sp, fn, TRUE, pa)

NextOutside ==
    \/ GetBothNext
    \/ DownloadBothNext
    \/ PostBothNext

SpecOutside == InitOutside /\ [][NextOutside]_vars

\* ---------------------------------------------- the query specification
\* A listing is requested with any C and O the query string can carry: the
\* four columns and two orders, lower-case and unrecognized values (an absent
\* parameter reads as its default, "N" or "A"). Then the link of the column
\* the page is sorted by is followed.
QueryColumns == Columns \cup {"n", "X"}
QueryOrders == {"A", "D", "a", "X"}

\* the column whose key sort_map.get(sort_column, "name") picks
SortedColumn(sort_column) == CHOOSE c \in Columns : sort_map(c) = sort_map(sort_column)

InitQuery == InitListing /\ Len(scan) <= 2

Query(sort_column, sort_order) ==
    /\ ~lst.done
    /\ lst' = Page(variant, scan, style, sort_column, sort_order, "", <<>>)
    /\ UNCHANGED <<variant, style, fs, pc, req, resp, tmp, uploads, scan>>

QueryNext == \E c \in QueryColumns, o \in QueryOrders : Query(c, o)

FollowSorted == Follow(SortedColumn(lst.C))

NextQuery ==
    \/ QueryNext
    \/ FollowSorted

SpecQuery == InitQuery /\ [][NextQuery]_vars

\* ------------------------------------------------------------- claims
InRoot(p) == IsRelativeTo(p, SERVE_ROOT)

\* the canonical form of root + subpath
Canon(f, sp) == resolve(f, join(SERVE_ROOT, sp))

\* a directory inside the root
ValidDir(f, p) == InRoot(p) /\ p \in DOMAIN f /\ f[p].kind = "dir"

Responded == pc = "responded"

\* a download request of a variant that knows the parameter
IsDownload == Responded /\ req.method = "GET" /\ req.download.segs # <<>> /\ variant # "app"

\* the canonical form of parent + download name
DlCanon == resolve(fs, join(Canon(fs, req.subpath), req.download))

\* the links the system follows on the way along path rest from cur
RECURSIVE LinksOn(_, _, _)
LinksOn(f, cur, rest) ==
    IF rest = <<>> THEN {}
    ELSE LET h == Head(rest)
             t == Tail(rest)
             c == Append(cur, h)
         IN  IF h = nDot \/ h = <<>> THEN LinksOn(f, cur, t)
             ELSE IF h = nDD THEN LinksOn(f, Parent(cur), t)
             ELSE IF c \in DOMAIN f /\ f[c].kind = "link"
                  THEN {c} \cup LinksOn(f, <<>>, f[c].target \o t)
                  ELSE LinksOn(f, c, t)

\* the request path, dot segments collapsed, names a link inside the root that
\* leads out of it, or something below such a link
ThroughOutLink(f, sp) ==
    \E l \in LinksOn(f, <<>>, normpath(join(SERVE_ROOT, sp))) :
        InRoot(l) /\ ~InRoot(resolve(f, f[l].target))

\* C1: a GET or POST whose subpath, joined to the root and normalised, is not a
\* descendant of the root is answered 403, and nothing is served, listed or
\* written.
C1_EscapeForbidden ==
    (Responded /\ ~InRoot(normpath(join(SERVE_ROOT, req.subpath))))
        => /\ resp.status = 403
           /\ resp.read = {} /\ resp.listed = {} /\ resp.archive = {}
           /\ resp.wrote = {} /\ resp.made = {}

\* C1 reached: a GET whose normalised path lies outside the root has been
\* answered 200 with what lies there.
C1_EscapeServed ==
    /\ Responded /\ req.method = "GET"
    /\ ~InRoot(normpath(join(SERVE_ROOT, req.subpath)))
    /\ resp.status = 200
    /\ \E p \in resp.read \cup resp.listed : ~InRoot(p)

\* the regular files of a file system
Files(f) == {p \in DOMAIN f : f[p].kind = "file"}

\* the relative path of an upload has a directory part, as in ../outside.bin
HasDirPart(r) == Len(FormPath(r).segs) >= 2

\* where target + relative path leads
Destination(f, r) == resolve(f, Canon(f, r.subpath) \o FormPath(r).segs)

\* C2: an upload to a valid target directory whose relative path, such as
\* ../outside.bin, leaves that directory is rejected with 400 or 403, and no
\* new file exists afterwards.
C2_EscapingUploadRejected ==
    [][(/\ pc = "idle" /\ pc' = "responded" /\ req'.method = "POST"
        /\ req'.marker /\ req'.file = "named" /\ HasDirPart(req')
        /\ ValidDir(fs, Canon(fs, req'.subpath))
        /\ ~IsRelativeTo(Destination(fs, req'), Canon(fs, req'.subpath)))
       => (resp'.status \in {400, 403} /\ Files(fs') \subseteq Files(fs))]_vars

\* C2 reached: an accepted upload with a directory part has written a file
\* that is not below its target directory.
C2_EscapingUploadStored ==
    /\ Responded /\ req.method = "POST" /\ HasDirPart(req) /\ resp.status = 200
    /\ \E p \in resp.wrote : ~IsRelativeTo(p, Canon(fs, req.subpath))

\* C3: an archive is built only when parent + name is, in canonical form, a
\* directory inside the root, and no file outside the root is read into an
\* archive.
C3_DownloadNameValidated ==
    IsDownload =>
        /\ resp.kind = "archive" => ValidDir(fs, DlCanon)
        /\ \A e \in resp.archive : InRoot(e.src)

\* C3 reached: a delivered archive holds a file from outside the root.
C3_OutsideFileArchived ==
    IsDownload /\ resp.kind = "archive" /\ \E e \in resp.archive : ~InRoot(e.src)

\* C4: a request path through a link inside the root that leads out of the root
\* is answered 403, and nothing the link leads to is served or listed.
C4_SymlinkForbidden ==
    (Responded /\ ThroughOutLink(fs, req.subpath))
        => /\ resp.status = 403
           /\ \A p \in resp.read \cup resp.listed : InRoot(p)

\* C4 reached: a request through a link that leads out of the root has been
\* answered 200 with a file from behind the link.
C4_SymlinkServed ==
    /\ Responded /\ ThroughOutLink(fs, req.subpath)
    /\ InRoot(normpath(join(SERVE_ROOT, req.subpath)))
    /\ resp.status = 200
    /\ \E p \in resp.read : ~InRoot(p)

\* C5: once a response is closed no temporary archive is left on disk, whatever
\* way the download ended.
C5_NoTempLeft == pc = "idle" => tmp = 0

\* C5 reached: a download has ended and been closed, and its temporary archive
\* is still on disk.
C5_TempLeaked == pc = "idle" /\ tmp > 0

\* C6: a download whose target exists outside the root is answered 403, one
\* whose target inside the root is missing or no directory 404, and no
\* temporary file is made before.
C6_DownloadRejections ==
    (IsDownload /\ ValidDir(fs, Canon(fs, req.subpath)))
        => /\ (~InRoot(DlCanon) /\ DlCanon \in DOMAIN fs)
                 => (resp.status = 403 /\ ~resp.tmpmade)
           /\ (InRoot(DlCanon) /\ ~ValidDir(fs, DlCanon))
                 => (resp.status = 404 /\ ~resp.tmpmade)

\* C6 reached: a download of something that is no directory inside the root
\* has been rejected with a status other than the one the target calls for.
C6_WrongRejection ==
    /\ IsDownload /\ ValidDir(fs, Canon(fs, req.subpath)) /\ ~resp.tmpmade
    /\ \/ ~InRoot(DlCanon) /\ DlCanon \in DOMAIN fs /\ resp.status = 500
       \/ InRoot(DlCanon) /\ ~ValidDir(fs, DlCanon) /\ resp.status \in {403, 500}

\* C7: when the scan of a directory or the compression of a file fails during
\* the walk, the request ends 500 and no archive reaches the client.
C7_AllOrNothing ==
    (/\ IsDownload /\ resp.tmpmade
     /\ \/ req.io.kind = "scandir"
        \/ req.io.kind = "compress" /\ Selected(fs, DlCanon, NoPath) # {})
        => (resp.status = 500 /\ resp.archive = {} /\ resp.read = {})

\* C7 reached: the scan of a directory failed during the walk and an archive
\* has been delivered with status 200.
C7_PartialDelivered ==
    /\ IsDownload /\ req.io.kind = "scandir"
    /\ resp.status = 200 /\ resp.kind = "archive"

\* the regular files below top none of whose components below top is hidden
VisibleFiles(f, top) ==
    {p \in DOMAIN f :
        /\ IsRelativeTo(p, top) /\ f[p].kind = "file"
        /\ \A i \in 1..Len(relative_to(p, top)) : ~IsHidden(relative_to(p, top)[i])}

\* C8: an archive delivered without an I/O failure holds one entry for each
\* regular file below the target that has no hidden component, named by its
\* path relative to the target.
C8_ArchiveEntries ==
    (IsDownload /\ resp.kind = "archive" /\ req.io.kind = "none")
        => resp.archive =
              {[arc |-> relative_to(p, resolve(fs, DlCanon)), src |-> p] :
                  p \in VisibleFiles(fs, resolve(fs, DlCanon))}

\* C8 reached: a delivered archive holds an entry with a hidden component.
C8_HiddenArchived ==
    /\ IsDownload /\ resp.kind = "archive" /\ req.io.kind = "none"
    /\ \E e \in resp.archive : \E i \in 1..Len(e.arc) : IsHidden(e.arc[i])

\* C9: every upload is answered with a structured acknowledgement whose status
\* is 403 for a target outside the root, 404 for a target that is missing or
\* no directory, 400 for a request without marker, file part or file name or
\* with a relative path that leaves the root, 500 when a directory on the way
\* cannot be made or the file cannot be saved, and 200 with success only when
\* the file has been stored.
C9_UploadAcknowledged ==
    [][(pc = "idle" /\ pc' = "responded" /\ req'.method = "POST")
       => LET t == Canon(fs, req'.subpath)
              formed == req'.marker /\ req'.file = "named"
              dst == Destination(fs, req')
              within == ValidDir(fs, t) /\ formed /\ IsRelativeTo(dst, t)
          IN  /\ resp'.json
              /\ ~InRoot(t) => resp'.status = 403
              /\ (InRoot(t) /\ ~ValidDir(fs, t)) => resp'.status = 404
              /\ (ValidDir(fs, t) /\ ~formed) => resp'.status = 400
              /\ (ValidDir(fs, t) /\ formed /\ HasDirPart(req') /\ ~InRoot(dst))
                    => resp'.status = 400
              /\ (within /\ HasDirPart(req') /\ ~makedirs(fs, Parent(dst)).ok)
                    => resp'.status = 500
              /\ (within /\ ~req'.hasPath /\ makedirs(fs, Parent(dst)).ok
                         /\ req'.io.kind # "none")
                    => resp'.status = 500
              /\ resp'.success <=> resp'.status = 200
              /\ resp'.status = 200 =>
                    \E p \in resp'.wrote : p \in DOMAIN fs' /\ fs'[p].data = "upload"]_vars

\* C9 reached: an upload has been answered without a structured
\* acknowledgement.
C9_Unacknowledged == Responded /\ req.method = "POST" /\ ~resp.json

\* C10: in a listing with directories first, whatever the column and the
\* order, no file stands before a directory.
C10_DirectoriesFirst ==
    (lst.done /\ ~lst.apache_style)
        => \A i, j \in 1..Len(lst.files) :
              (i < j /\ lst.files[j].is_directory) => lst.files[i].is_directory

\* C10 reached: a listing with directories first, in descending order, shows a
\* file before a directory.
C10_FileBeforeDirectory ==
    /\ lst.done /\ ~lst.apache_style /\ lst.O = "D"
    /\ \E i, j \in 1..Len(lst.files) :
          i < j /\ ~lst.files[i].is_directory /\ lst.files[j].is_directory

\* the names of a made listing, in order
ListedNames == [i \in 1..Len(lst.files) |-> lst.files[i].name]

\* C11: a mixed listing in ascending order is non-decreasing by the key of the
\* chosen column alone, directories and files interleaved; names compare by
\* code unit without case folding, so B, a, Z are listed as B, Z, a.
C11_MixedAscending ==
    (lst.done /\ lst.apache_style /\ lst.O = "A")
        => /\ \A i, j \in 1..Len(lst.files) :
                 i < j => ~ValueLess(lst.files[j], lst.files[i], sort_map(lst.C))
           /\ (lst.C = "N" /\ Len(lst.files) = 3)
                 => ListedNames = <<<<"B">>, <<"Z">>, <<"a">>>>

\* C11 reached: a mixed ascending listing by name of B, Z, a in which a file
\* stands before a directory.
C11_MixedInterleaved ==
    /\ lst.done /\ lst.apache_style /\ lst.O = "A" /\ lst.C = "N"
    /\ ListedNames = <<<<"B">>, <<"Z">>, <<"a">>>>
    /\ ~lst.files[1].is_directory /\ lst.files[2].is_directory

\* C12: on a rendered page the link of every column other than the active one
\* carries that column's default order: descending for Name when the style in
\* effect for the page is mixed, ascending otherwise.
C12_InactiveLinkDefault ==
    lst.done =>
        \A c \in Columns \ {lst.C} :
            lst.links[c] = [C |-> c, O |-> IF c = "N" /\ lst.apache_style THEN "D" ELSE "A"]

\* C12 reached: a page rendered in mixed style by the apache parameter, sorted
\* by another column than Name, whose Name link is ascending.
C12_OverrideIgnored ==
    /\ lst.done /\ lst.apache_style /\ ~style /\ lst.C # "N"
    /\ lst.links["N"].O = "A"

\* C13: the link of the active column keeps the column and carries the
\* opposite order, so following it twice leads back to the order the first
\* page had.
C13_ActiveLinkToggles ==
    lst.done =>
        /\ lst.links[lst.C] = [C |-> lst.C, O |-> IF lst.O = "A" THEN "D" ELSE "A"]
        /\ \A i \in 1..Len(lst.trail) :
              (i + 2 <= Len(lst.trail) /\ lst.trail[i + 1].C = lst.trail[i].C
                                       /\ lst.trail[i + 2].C = lst.trail[i].C)
                 => (lst.trail[i + 1].O # lst.trail[i].O /\ lst.trail[i + 2] = lst.trail[i])

\* C13 reached: the active column's link has been followed twice from an
\* ascending page, through a descending one, back to an ascending one.
C13_TwiceFollowed ==
    /\ lst.done /\ Len(lst.trail) = 3
    /\ lst.trail[2].C = lst.trail[1].C /\ lst.trail[3].C = lst.trail[1].C
    /\ lst.trail[1].O = "A" /\ lst.trail[2].O = "D" /\ lst.O = "A"

\* the unit a size is shown in: 0 bytes, 1 K, 2 M, 3 G
UnitOf(d) == IF d[1] # 0 THEN 3 ELSE IF d[2] # 0 THEN 2 ELSE IF d[3] # 0 THEN 1 ELSE 0

\* the numbers nearest to base + mult * part (two of them at a tie)
Nearest(base, x) ==
    {base + x.q : b \in {x.half} \cap {-1, 0}} \cup {base + x.q + 1 : b \in {x.half} \cap {0, 1}}

\* C14: the size string is "  0 " for 0, the number right-justified to width 3
\* and a space below 1024, and from 1024 on the size in units of K, M or G:
\* with one decimal when below 10 units, else rounded to a whole number
\* right-justified to width 3, then the unit letter; 512 gives "512 ", 2048
\* "2.0K", 15 * 1024 * 1024 " 15M"; the three formatters give the same string.
C14_SizeFormat ==
    lst.done =>
        LET d == lst.size
            u == UnitOf(d)
            letter == <<"K", "M", "G">>[u]
        IN  /\ lst.text = format_size(d) /\ lst.text = format_file_size(d)
            /\ d = <<0, 0, 0, 0>> => lst.text = <<" ", " ", "0", " ">>
            /\ (u = 0 /\ d[4] > 0) => lst.text = RJust3(DecStr(d[4])) \o <<" ">>
            /\ (u > 0 /\ Whole(d, u) < 10) =>
                  \E t \in Nearest(10 * Whole(d, u), Times(10, Part(d, u))) :
                      lst.text = DecStr(t \div 10) \o <<".", Digit(t % 10), letter>>
            /\ (u > 0 /\ Whole(d, u) >= 10) =>
                  \E n \in Nearest(Whole(d, u), Times(1, Part(d, u))) :
                      lst.text = RJust3(DecStr(n)) \o <<letter>>
            /\ d = <<0, 0, 0, 512>> => lst.text = <<"5", "1", "2", " ">>
            /\ d = <<0, 0, 2, 0>> => lst.text = <<"2", ".", "0", "K">>
            /\ d = <<0, 15, 0, 0>> => lst.text = <<" ", "1", "5", "M">>

\* C14 reached: 15 * 1024 * 1024 has been formatted as " 15M".
C14_FifteenM ==
    lst.done /\ lst.size = <<0, 15, 0, 0>> /\ lst.text = <<" ", "1", "5", "M">>

\* the children of the scan that are not hidden
VisibleScan == {i \in 1..Len(scan) : ~IsHidden(scan[i].name)}

\* C15: when the enumeration of the directory succeeds, the listing holds
\* exactly one entry for each child whose name does not start with '.' and
\* nothing else, whatever the column, order and style; every directory entry
\* has size_bytes 0 and the dash placeholder as its size string.
C15_ExactlyVisibleChildren ==
    (lst.done /\ ~ScanFails(scan)) =>
        /\ Len(lst.files) = Cardinality(VisibleScan)
        /\ \A i \in VisibleScan :
               Cardinality({j \in 1..Len(lst.files) :
                               /\ lst.files[j].name = scan[i].name
                               /\ lst.files[j].is_directory = scan[i].is_dir}) = 1
        /\ \A j \in 1..Len(lst.files) :
               /\ \E i \in VisibleScan : lst.files[j].name = scan[i].name
               /\ Head(lst.files[j].name) # "."
               /\ lst.files[j].is_directory =>
                      /\ lst.files[j].size_bytes = 0
                      /\ lst.files[j].size_formatted = <<" ", " ", "-", " ">>

\* a descending mixed-style listing of a directory, a file and a hidden file
C15_HiddenSkipped ==
    /\ lst.done /\ ~ScanFails(scan)
    /\ lst.O = "D" /\ lst.apache_style
    /\ Len(scan) = 3 /\ Len(lst.files) = 2
    /\ \E i \in 1..3 : IsHidden(scan[i].name)
    /\ \E j, k \in 1..2 : lst.files[j].is_directory /\ ~lst.files[k].is_directory

\* C16: if reading the directory or inspecting one of its children fails, the
\* listing is the empty sequence, never the children read before the failure,
\* and the request is answered with a normal page, status 200.
C16_FailureGivesEmptyPage ==
    (lst.done /\ ScanFails(scan)) => (lst.files = <<>> /\ lst.status = 200)

\* the second child fails after the first was read
C16_FailedAfterFirst ==
    /\ lst.done /\ Len(scan) >= 2
    /\ ~IsHidden(scan[1].name) /\ ~scan[1].err
    /\ ~IsHidden(scan[2].name) /\ scan[2].err
    /\ lst.files = <<>> /\ lst.status = 200

\* both uploads have answered success
BothSaved == \A p \in Uploaders : pc[p] = "done" /\ resp[p] = 200

\* C17: when two concurrent uploads to the same destination have both
\* reported success, the file at the destination holds the complete stream
\* of exactly one of them, never a mixture and never a truncated stream.
C17_LastWriterWins ==
    BothSaved => \E p \in Uploaders : lst.file = Stream(p, req[p])

\* both uploads succeeded and the file holds bytes of both
C17_Mixture ==
    /\ BothSaved
    /\ \A p \in Uploaders : \E k \in 1..Len(lst.file) : lst.file[k][1] = p

\* the names and sizes a listing shows; the non-hidden children of a directory
Shown(files) == {<<files[i].name, files[i].size_bytes>> : i \in 1..Len(files)}
Children(d) == {<<n, d[n]>> : n \in {m \in SnapNames : d[m] # 0 /\ ~IsHidden(m)}}

\* C18: a listing that ran while the directory was being changed shows the
\* non-hidden children (names and sizes) as they were at one instant between
\* the start and the end of the request.
C18_ConsistentSnapshot ==
    pc = "done" => \E d \in lst.seen : Shown(lst.files) = Children(d)

\* a listing that returned while the directory was changed: no inspection
\* failed, and the page shows a directory that never was
C18_TornListing ==
    /\ pc = "done" /\ uploads > 0
    /\ ~ScanFails(lst.items)
    /\ \A d \in lst.seen : Shown(lst.files) # Children(d)

\* the real path an icon name leads to
IconTarget == resolve(fs, assets_dir \o req)

\* C19: the file served for a name under /icons/ lies inside the assets
\* directory; a name that leads out of it, through '..' or into a sibling
\* whose path has the path of the assets directory as a string prefix, is
\* answered 403, and no file outside the assets directory is served.
C19_IconContained ==
    pc = "icon" =>
        /\ ~IsRelativeTo(IconTarget, assets_dir) => resp.status = 403
        /\ \A p \in resp.read : IsRelativeTo(p, assets_dir)

\* an icon request was answered with a file of the sibling directory
C19_SiblingServed ==
    /\ pc = "icon" /\ resp.status = 200
    /\ resp.read = {<<nX, nAS, nICE, nF>>}

\* the path of the request (GET subpath, upload target directory, download
\* name under its parent) resolves outside the root
Escapes ==
    \/ ~InRoot(Canon(fs, req.subpath))
    \/ req.method = "GET" /\ req.download.segs # <<>> /\ variant # "app" /\ ~InRoot(DlCanon)

\* C20: a request whose path resolves outside the root gets the same status
\* on two file systems that agree inside the root and differ only outside
\* it: the containment check comes before any look at what exists.
C20_OutsideIndependent ==
    (pc = "compared" /\ Escapes) => resp.status = lst.resp2.status

\* a download of flask_directory_listing whose name leaves the root is
\* answered 403 where the path exists and 404 where it does not
C20_ExistenceLeaked ==
    /\ pc = "compared" /\ variant = "pkg"
    /\ req.method = "GET" /\ InRoot(Canon(fs, req.subpath)) /\ ~InRoot(DlCanon)
    /\ resp.status = 403 /\ lst.resp2.status = 404

\* C21: for every size, the string of the size formatter is exactly 4
\* characters long, in each of the K, M and G ranges, just below 10 units and
\* just below 1024 units included.
C21_FourCharacters ==
    lst.done => Len(lst.text) = 4

\* 10239 bytes, just under 10K, have been formatted as the five characters
\* "10.0K"
C21_TenPointZeroK ==
    /\ lst.done /\ lst.size = <<0, 0, 9, 1023>>
    /\ lst.text = <<"1", "0", ".", "0", "K">>

\* C22: whatever C and O a listing request carries, the link of the column
\* the listing is sorted by offers the opposite of the order applied to the
\* page, so the page that link leads to shows the entries in reverse.
C22_SortedLinkReverses ==
    [][(lst.done /\ lst'.done) => lst'.files = Reverse(lst.files)]_vars

\* a page asked with an unrecognized order lists two names ascending, and the
\* link of its own column offers ascending again
C22_SameOrderOffered ==
    /\ lst.done /\ lst.C = "N" /\ lst.O = "X"
    /\ ListedNames = <<<<"B">>, <<"a">>>>
    /\ lst.links["N"] = [C |-> "N", O |-> "A"]

====
